---- MODULE Spec2Model ----
(***************************************************************************)
(* Zenith static blog generator: the build orchestrator (in-flight guard,  *)
(* debounced watch loop) and the timestamp-driven style build step.        *)
(*                                                                         *)
(* The repository holds two generations of the orchestrator.  The variable *)
(* variant selects one for a whole behaviour:                              *)
(*   "batched"    - unnamed/part_002: debounce() helper with a 300 ms      *)
(*                  delay, asset copy and style step awaited jointly,      *)
(*                  feeds and sitemap written through batchWrite;          *)
(*   "sequential" - src/lib/build-orchestrator.ts: buildTimeout field with *)
(*                  a 100 ms delay, steps awaited one after another,       *)
(*                  sitemap and feeds written after batchWrite.            *)
(* Node runs the program on one thread: every action below is the code     *)
(* between two suspension points (await / timer / watcher callback).       *)
(***************************************************************************)
EXTENDS Integers, Sequences, FiniteSets, TLC

VARIABLES
    variant,        \* which generation of BuildOrchestrator is running
    mode,           \* index.ts: "watch" (--watch / -w) or "build"
    isProduction,   \* StyleCompiler.isProduction
    alive,          \* the node process is running
    cli,            \* index.ts: "start", "running", "resolved", "rejected"
    subscribed,     \* chokidar handlers for change/add/unlink are registered
    isBuilding,     \* BuildOrchestrator.isBuilding
    isInitialBuild, \* BuildOrchestrator.isInitialBuild (batched variant)
    runs,           \* activations of build() past the guard, oldest first
    orphans,        \* compileIfNeeded() activations no build() awaits any more
    timers,         \* the runtime's armed timers: records [id, remaining]
    timeout,        \* debounce's `timeout` / `buildTimeout`: 0 is null, else a timer id
    fs,             \* file system: file -> [mtime, content], Absent when missing
    postsDir,       \* config.postsDir: the names of its .md files in readdir order
    dist,           \* config.distDir: the generated files, a set of [path, content]
    unwritable,     \* the kinds of path under distDir whose writeFile fails
    now,            \* wall clock used for modification times
    lastExit,       \* history: how the latest build() past the guard ended
    burst,          \* history: size of the latest burst of notifications (no callback between them)
    fires,          \* history: timer callbacks run since the last notification
    calls,          \* history: build() invocations among them
    elapsed,        \* history: ms since the last notification, saturating at the delay
    dropped,        \* history: a trigger was dropped and no notification came since
    quiet,          \* history: builds started since the last source edit, saturating at 2
    prevStyle       \* history: how the style step of the latest build() that resolved ended

vars == << variant, mode, isProduction, alive, cli, subscribed, isBuilding,
           isInitialBuild, runs, orphans, timers, timeout, fs, postsDir, dist,
           unwritable, now,
           lastExit, burst, fires, calls, elapsed, dropped, quiet, prevStyle >>

memVars == << isBuilding, isInitialBuild, runs, orphans >>
timerVars == << timers, timeout >>
histTimerVars == << burst, fires, calls, elapsed, dropped >>

----------------------------------------------------------------------------
(* Bounds of the model *)

\* latest value of the wall clock
MaxTime == 2
\* compileIfNeeded() activations that may outlive their build() at one time
MaxOrphans == 1
\* build() activations the state can hold (the guard keeps it at one)
MaxInFlight == 2
\* timers the runtime can hold (clearTimeout keeps it at one)
MaxTimers == 2
\* granularity of the timer clock, in ms
TickMs == 100
\* saturation of the burst counter
MaxBurst == 3
\* most .md files in the posts directory
MaxFiles == 3
\* the clock is advanced by seconds and days while it reads less than this
\* many seconds
MaxSeconds == 1
\* most posts of one series in the posts directory
MaxPosts == 41

(* Program constants *)

\* this.debounce(() => this.build(), 300)
DebounceDelay == 300
\* setTimeout(async () => {...}, 100)
LegacyDelay == 100

----------------------------------------------------------------------------
(* Files *)

ScssFile == "main.scss"
OutputFile == "main.css"
MapFile == "main.css.map"
\* fg(['**/*.scss'], {cwd: config.stylesDir})
ScssFiles == {"main.scss", "_vars.scss"}
\* fg(['**/*.{html,ts}']) under config.templatesDir and config.srcDir
TemplateFiles == {"index.html"}
Candidates == ScssFiles \cup TemplateFiles
Files == Candidates \cup {OutputFile, MapFile}

Absent == [mtime |-> 0, content |-> 0]

Min(a, b) == IF a < b THEN a ELSE b

\* Math.max(0, ...times)
MathMax0(S) == CHOOSE x \in S \cup {0} : \A y \in S \cup {0} : y <= x

\* getModTime: the mtime, or 0 when stat throws
getModTime(f, file) == IF f[file] = Absent THEN 0 ELSE f[file].mtime

\* fast-glob lists the files that exist
Glob(f, S) == {x \in S : f[x] # Absent}

getLatestTemplateTime(f) == MathMax0({getModTime(f, x) : x \in Glob(f, TemplateFiles)})

getLatestScssTime(f) == MathMax0({getModTime(f, x) : x \in Glob(f, ScssFiles)})

\* mutant: the templates and source files are left out of the comparison
needsRecompile_NoTemplates(f) ==
    LET scssTime == getModTime(f, ScssFile)
        outputTime == getModTime(f, OutputFile)
        scssFilesTime == getLatestScssTime(f)
    IN  \/ scssTime > outputTime
        \/ scssFilesTime > outputTime

\* mutant: >= where the code has >
needsRecompile_Ties(f) ==
    LET scssTime == getModTime(f, ScssFile)
        outputTime == getModTime(f, OutputFile)
        templateTime == getLatestTemplateTime(f)
        scssFilesTime == getLatestScssTime(f)
    IN  \/ scssTime >= outputTime
        \/ templateTime >= outputTime
        \/ scssFilesTime >= outputTime

\* needsRecompile(scssFile, outputFile): the four times are read, then compared
needsRecompile(f) ==
    LET scssTime == getModTime(f, ScssFile)
        outputTime == getModTime(f, OutputFile)
        templateTime == getLatestTemplateTime(f)
        scssFilesTime == getLatestScssTime(f)
    IN  \/ scssTime > outputTime
        \/ templateTime > outputTime
        \/ scssFilesTime > outputTime

\* build.ts, compileStylesIfNeeded: readdir(stylesDir) filtered on .scss,
\* the latest mtime against the css file's
compileStylesIfNeededStale(f) ==
    LET latestScssModTime == MathMax0({getModTime(f, x) : x \in Glob(f, ScssFiles)})
        cssModTime == getModTime(f, OutputFile)
    IN  latestScssModTime > cssModTime

----------------------------------------------------------------------------
(* StyleCompiler.compileIfNeeded, one suspension point per step *)

StyleIdle == [pc |-> "idle", css |-> 0, wrote |-> FALSE]
StyleStart == [pc |-> "check", css |-> 0, wrote |-> FALSE]
StyleTerminal == {"skipped", "compiled", "failed"}
StyleDone(t) == t.pc \in StyleTerminal
StyleRunning(t) == t.pc \in {"check", "mkdir", "postcss", "writeCss", "writeMap"}

\* how an activation ended: "none" while it has not
StyleOutcome(t) == IF StyleDone(t) THEN t.pc ELSE "none"

\* what is remembered of the style step of a build: a failure before the
\* stylesheet file was opened is told apart
StyleRecord(t) ==
    IF t.pc = "failed" /\ ~t.wrote THEN "failedBeforeWrite" ELSE StyleOutcome(t)

\* sass.compile(scssFile, {loadPaths: [stylesDir]}): the css of the sources as
\* they are when it runs
CompiledCss(f) == MathMax0({f[x].content : x \in Glob(f, ScssFiles)})

\* fs.writeFile(file, data): written; or failed before the file was opened;
\* or failed after it was opened with flag 'w' (truncated)
WriteFile(f, file, data, clock) ==
    { [ok |-> TRUE, touched |-> TRUE,
       fs |-> [f EXCEPT ![file] = [mtime |-> clock, content |-> data]]],
      [ok |-> FALSE, touched |-> FALSE, fs |-> f],
      [ok |-> FALSE, touched |-> TRUE,
       fs |-> [f EXCEPT ![file] = [mtime |-> clock, content |-> 0]]] }

\* mutant: the early return is missing
afterCheck_NoSkip(f) == "mkdir"

\* `if (!needsCompile) { log skip; return; }`
afterCheck(f) == IF needsRecompile(f) THEN "mkdir" ELSE "skipped"

\* mutant: the catch block leaves an empty stylesheet of this moment behind
StyleFailure_TouchesOutput(t, f) ==
    [task |-> [pc |-> "failed", css |-> 0, wrote |-> t.wrote],
     fs |-> [f EXCEPT ![OutputFile] =
                [mtime |-> MathMax0({getModTime(f, x) : x \in Glob(f, Candidates)}),
                 content |-> 0]]]

\* `catch (err) { console.warn(...) }`: the task ends, nothing is undone or removed
StyleFailure(t, f) == [task |-> [pc |-> "failed", css |-> 0, wrote |-> t.wrote], fs |-> f]

\* `if (!this.isProduction && result.map)` after the stylesheet is written
afterCssWrite(prod) == IF prod THEN "compiled" ELSE "writeMap"

\* The outcomes of the next step of activation t: a set of [task, fs]
compileIfNeeded(t, f, clock, prod) ==
    CASE t.pc = "check" ->
            { [task |-> [t EXCEPT !.pc = afterCheck(f)], fs |-> f] }
      [] t.pc = "mkdir" ->
            \* await fs.mkdir, then sass.compile reads the sources
            { StyleFailure(t, f) } \cup
            ( IF f[ScssFile] = Absent THEN {}
              ELSE { [task |-> [t EXCEPT !.pc = "postcss", !.css = CompiledCss(f)],
                      fs |-> f] } )
      [] t.pc = "postcss" ->
            \* await postcss(...).process, then minify in production
            { StyleFailure(t, f), [task |-> [t EXCEPT !.pc = "writeCss"], fs |-> f] }
      [] t.pc = "writeCss" ->
            { IF w.ok THEN [task |-> [t EXCEPT !.pc = afterCssWrite(prod), !.wrote = TRUE],
                            fs |-> w.fs]
                      ELSE StyleFailure([t EXCEPT !.wrote = w.touched], w.fs)
              : w \in WriteFile(f, OutputFile, t.css, clock) }
      [] t.pc = "writeMap" ->
            { IF w.ok THEN [task |-> [t EXCEPT !.pc = "compiled"], fs |-> w.fs]
                      ELSE StyleFailure(t, w.fs)
              : w \in WriteFile(f, MapFile, t.css, clock) }

----------------------------------------------------------------------------
(* Front matter: FrontmatterValidator.validate and PostProcessor.loadPosts *)

\* A field of the `data` gray-matter returns: undefined, a value that is not
\* a string (a number, a YAML date), a string, or a list.  A string is its
\* text without the surrounding white space, and whether it had any.
Undefined == [kind |-> "undefined", pad |-> FALSE, text |-> "", list |-> << >>]
NonText == [kind |-> "other", pad |-> FALSE, text |-> "", list |-> << >>]
Text(pad, s) == [kind |-> "string", pad |-> pad, text |-> s, list |-> << >>]
List(l) == [kind |-> "array", pad |-> FALSE, text |-> "", list |-> l]

\* a metadata field that was never assigned
NoValue == "<undefined>"

\* JavaScript truthiness: undefined and '' are falsy, ' ' is not
Truthy(v) ==
    CASE v.kind = "undefined" -> FALSE
      [] v.kind = "string" -> (v.text # "" \/ v.pad)
      [] OTHER -> TRUE

\* String.prototype.trim
trim(v) == v.text

\* PREDEFINED_CATEGORIES
PREDEFINED_CATEGORIES ==
    { "Web Development", "Privacy", "Tutorial", "Guide", "Review", "News",
      "Opinion", "Technology", "Programming", "Frontend", "Backend", "DevOps",
      "Design", "UX/UI", "Mobile", "Security", "Open Source", "Learning", "API",
      "Database", "Cloud", "Data Science", "Personal", "Tips & Tricks" }

\* the label validate() gives a post without categories
DefaultCategory == "uncategorized"

Range(s) == {s[k] : k \in 1..Len(s)}

\* TemplateEngine.validateCategories throws CategoryValidationError
CategoriesRejected(categories) ==
    \E c \in Range(categories) : c \notin PREDEFINED_CATEGORIES

\* /^\d{4}-\d{2}-\d{2}$/.test(s), on the date strings of this model
DateRegexTest(s) == s \in {"2025-01-01", "2025-06-01", "2025-09-01", "2025-13-40"}

\* new Date(s).getTime() in days, NaN for a string Date cannot parse
NaN == -1
DateGetTime(s) ==
    CASE s = "2025-01-01" -> 20089
      [] s = "2025-06-01" -> 20240
      [] s = "2025-09-01" -> 20332
      [] s = "March 1, 2025" -> 20148
      [] OTHER -> NaN

\* FrontmatterValidator.generateSlug, on the titles of this model
generateSlug(title) ==
    CASE title = "Hi" -> "hi"
      [] title = "Yo!" -> "yo"
      [] OTHER -> title

\* the required-field test of lines 33-37 passes
RequiredPresent(v) == Truthy(v) /\ v.kind = "string" /\ trim(v) # ""

\* `metadata[field] && typeof ... === 'string' && trim() !== ''` of lines 114-119
RequiredSet(m) == m # NoValue /\ m # ""

\* mutant: only the title is checked at the end
IsValid_TitleOnly(metadata) == RequiredSet(metadata.title)

\* `REQUIRED_FIELDS.every(...)`
IsValid(metadata) == RequiredSet(metadata.title) /\ RequiredSet(metadata.date)

\* the categories assigned in lines 47-56; << >> when none is
CategoriesGiven(v) ==
    CASE v.kind = "array" ->
            LET kept == SelectSeq(v.list, LAMBDA c : c.kind = "string" /\ trim(c) # "")
            IN  [k \in 1..Len(kept) |-> trim(kept[k])]
      [] v.kind = "string" /\ Truthy(v) -> << trim(v) >>
      [] OTHER -> << >>

\* an optional text field, lines 57-59
OptionalGiven(v) == IF Truthy(v) /\ v.kind = "string" THEN trim(v) ELSE NoValue

\* warnings.push(w) when cond
Warn(cond, w) == IF cond THEN {w} ELSE {}

\* FrontmatterValidator.validate(data, filename)
validate(data) ==
    LET title == IF RequiredPresent(data.title) THEN trim(data.title) ELSE NoValue
        date == IF RequiredPresent(data.date) THEN trim(data.date) ELSE NoValue
        slug0 == OptionalGiven(data.slug)
        description0 == OptionalGiven(data.description)
        given == CategoriesGiven(data.categories)
        noSlug == slug0 \in {NoValue, ""}
        slug == IF noSlug /\ title # NoValue THEN generateSlug(title) ELSE slug0
        noDescription == description0 \in {NoValue, ""}
        description == IF noDescription
                       THEN (IF title # NoValue THEN title ELSE "Blog post")
                       ELSE description0
        categories == IF given = << >> THEN << DefaultCategory >> ELSE given
        metadata == [title |-> title, date |-> date, description |-> description,
                     slug |-> slug, categories |-> categories]
        warnings ==
            Warn(~RequiredPresent(data.title), "required:title")
            \cup Warn(~RequiredPresent(data.date), "required:date")
            \cup Warn(date # NoValue /\ ~DateRegexTest(date), "date:format")
            \cup Warn(date # NoValue /\ DateRegexTest(date) /\ DateGetTime(date) = NaN,
                      "date:value")
            \cup Warn(noSlug /\ title # NoValue, "slug:generated")
            \cup Warn(noDescription, "description:missing")
            \cup Warn(given = << >>, "categories:default")
            \cup Warn(CategoriesRejected(categories), "categories:invalid")
    IN  [isValid |-> IF CategoriesRejected(categories) THEN FALSE ELSE IsValid(metadata),
         warnings |-> warnings,
         metadata |-> metadata]

\* the comparator of loadPosts: new Date(b.date).getTime() - new Date(a.date).getTime()
comparefn(a, b) ==
    IF DateGetTime(a.date) = NaN \/ DateGetTime(b.date) = NaN THEN NaN
    ELSE DateGetTime(b.date) - DateGetTime(a.date)

\* Array.prototype.sort calls the comparator and reads a NaN result as +0
Order(x, y) == IF comparefn(x, y) = NaN THEN 0 ELSE comparefn(x, y)

Reverse(s) == [k \in 1..Len(s) |-> s[Len(s) + 1 - k]]

\* the initial run of the array: ascending, or strictly descending; idx is
\* the length counted so far
RECURSIVE CountRun(_, _, _)
CountRun(s, idx, isDescending) ==
    IF idx = Len(s) THEN idx
    ELSE LET order == Order(s[idx + 1], s[idx])
         IN  IF isDescending
             THEN (IF order >= 0 THEN idx ELSE CountRun(s, idx + 1, isDescending))
             ELSE (IF order < 0 THEN idx ELSE CountRun(s, idx + 1, isDescending))

\* binary search of the place of pivot in s[left+1 .. right], 0-based bounds
RECURSIVE InsertionPoint(_, _, _, _)
InsertionPoint(s, pivot, left, right) ==
    IF left >= right THEN left
    ELSE LET mid == left + (right - left) \div 2
         IN  IF Order(pivot, s[mid + 1]) < 0
             THEN InsertionPoint(s, pivot, left, mid)
             ELSE InsertionPoint(s, pivot, mid + 1, right)

\* the elements from index start (0-based) on are inserted one by one into
\* the sorted part before them
RECURSIVE BinaryInsertionSort(_, _)
BinaryInsertionSort(s, start) ==
    IF start >= Len(s) THEN s
    ELSE LET pivot == s[start + 1]
             left == InsertionPoint(s, pivot, 0, start)
         IN  BinaryInsertionSort(SubSeq(s, 1, left) \o << pivot >>
                                 \o SubSeq(s, left + 1, start)
                                 \o SubSeq(s, start + 2, Len(s)), start + 1)

\* Array.prototype.sort(comparefn) of an array shorter than 32 elements: the
\* initial run is counted (and reversed when descending), the rest inserted
sort(s) ==
    IF Len(s) < 2 THEN s
    ELSE LET isDescending == Order(s[2], s[1]) < 0
             runLength == CountRun(s, 2, isDescending)
             run == SubSeq(s, 1, runLength)
             made == (IF isDescending THEN Reverse(run) ELSE run)
                     \o SubSeq(s, runLength + 1, Len(s))
         IN  BinaryInsertionSort(made, runLength)

\* the k-th file of a series of posts that differ in their slug only, and
\* its slug
SeriesFile(k) == "p" \o ToString(k) \o ".md"
SeriesSlug(k) == "p" \o ToString(k)

\* matter(fileContent).data of the source files of this model, by file name:
\* src/posts/welcome.md, posts written to try the validator and the
\* generators, and the series
FrontMatter(file) ==
    LET Data(title, date, categories, slug) ==
            [title |-> title, date |-> date, description |-> Undefined,
             categories |-> categories, slug |-> slug]
        Privacy == List(<< Text(FALSE, "Privacy") >>)
    IN  CASE file = "hi.md" ->
                Data(Text(FALSE, "Hi"), Text(FALSE, "2025-06-01"), Privacy, Undefined)
          [] file = "multi.md" ->
                Data(Text(FALSE, "Hi"), Text(FALSE, "2025-06-01"),
                     List(<< Text(FALSE, "Privacy"), Text(FALSE, "Web Development") >>),
                     Text(FALSE, "multi"))
          [] file = "dup.md" ->
                Data(Text(FALSE, "Hi"), Text(FALSE, "2025-01-01"),
                     List(<< Text(FALSE, "Web Development"), Text(FALSE, "Web Development") >>),
                     Text(FALSE, "dup"))
          [] file = "welcome.md" ->
                [title |-> Text(FALSE, "Welcome to Zenith"),
                 date |-> Text(FALSE, "2025-09-01"),
                 description |-> Text(FALSE, "My first blog post introducing Zenith"),
                 categories |-> List(<< Text(FALSE, "Web Development") >>),
                 slug |-> Text(FALSE, "welcome-to-zenith")]
          [] file = "a.md" ->
                Data(Text(FALSE, "Hi"), Text(FALSE, "2025-01-01"), Privacy, Undefined)
          [] file = "b.md" ->
                Data(Text(FALSE, "Yo!"), Text(FALSE, "2025-06-01"), Privacy, Undefined)
          [] file = "c.md" ->
                Data(Text(TRUE, "Hi"), Text(TRUE, "2025-06-01"), Text(TRUE, "Privacy"),
                     Text(FALSE, "c"))
          [] file = "baddate.md" ->
                Data(Text(FALSE, "Hi"), Text(FALSE, "2025-13-40"), Privacy, Text(FALSE, "d"))
          [] file = "textdate.md" ->
                Data(Text(FALSE, "Hi"), Text(FALSE, "March 1, 2025"), Privacy, Text(FALSE, "e"))
          [] file = "nocat.md" ->
                Data(Text(FALSE, "Hi"), Text(FALSE, "2025-01-01"), Undefined, Text(FALSE, "f"))
          [] file = "badcat.md" ->
                Data(Text(FALSE, "Hi"), Text(FALSE, "2025-01-01"),
                     List(<< Text(FALSE, "Cooking") >>), Text(FALSE, "h"))
          [] file = "notitle.md" ->
                Data(Undefined, Text(FALSE, "2025-01-01"), Privacy, Text(FALSE, "i"))
          [] file = "emptytitle.md" ->
                Data(Text(FALSE, ""), Text(FALSE, "2025-01-01"), Privacy, Text(FALSE, "j"))
          [] file = "blanktitle.md" ->
                Data(Text(TRUE, ""), Text(FALSE, "2025-01-01"), Privacy, Text(FALSE, "k"))
          [] file = "numtitle.md" ->
                Data(NonText, Text(FALSE, "2025-01-01"), Privacy, Text(FALSE, "l"))
          [] file = "nodate.md" ->
                Data(Text(FALSE, "Hi"), Undefined, Privacy, Text(FALSE, "m"))
          [] file = "emptydate.md" ->
                Data(Text(FALSE, "Hi"), Text(FALSE, ""), Privacy, Text(FALSE, "p"))
          [] file = "blankdate.md" ->
                Data(Text(FALSE, "Hi"), Text(TRUE, ""), Privacy, Text(FALSE, "n"))
          [] file = "yamldate.md" ->
                Data(Text(FALSE, "Hi"), NonText, Privacy, Text(FALSE, "o"))
          [] OTHER ->
                LET k == CHOOSE n \in 1..MaxPosts : SeriesFile(n) = file
                IN  Data(Text(FALSE, "Hi"), Text(FALSE, "2025-01-01"), Privacy,
                         Text(FALSE, SeriesSlug(k)))

\* mutant: a source that fails validation is kept
Kept_All(file) == TRUE

\* `if (!validation.isValid) return null`, then `filter(p => p !== null)`
Kept(file) == validate(FrontMatter(file)).isValid

\* the Post of a source file; `file` names the source it was made from
PostOf(file) ==
    LET m == validate(FrontMatter(file)).metadata
    IN  [file |-> file, title |-> m.title, date |-> m.date,
         description |-> m.description, slug |-> m.slug, categories |-> m.categories]

\* PostProcessor.loadPosts on the files readdir lists, in its order
loadPosts(dir) ==
    LET kept == SelectSeq(dir, Kept)
    IN  sort([k \in 1..Len(kept) |-> PostOf(kept[k])])

\* a collection of posts held in a variable: each post by its source file
Names(posts) == [k \in 1..Len(posts) |-> posts[k].file]
Posts(names) == [k \in 1..Len(names) |-> PostOf(names[k])]

----------------------------------------------------------------------------
(* The generators: write operations [path, content] *)

PostsPerPageRich == 20
PostsPerPageLegacy == 5
SitemapPostsPerPage == 5
FeedLimit == 10

\* Math.ceil(n / size)
Ceil(n, size) == (n + size - 1) \div size

\* Utils.slugify on the predefined category labels: lower case, every
\* character but a-z, 0-9, white space and - removed, white space to -, runs
\* of - to one
slugify(text) ==
    CASE text = "Web Development" -> "web-development"
      [] text = "Privacy" -> "privacy"
      [] text = "Tutorial" -> "tutorial"
      [] text = "Guide" -> "guide"
      [] text = "Review" -> "review"
      [] text = "News" -> "news"
      [] text = "Opinion" -> "opinion"
      [] text = "Technology" -> "technology"
      [] text = "Programming" -> "programming"
      [] text = "Frontend" -> "frontend"
      [] text = "Backend" -> "backend"
      [] text = "DevOps" -> "devops"
      [] text = "Design" -> "design"
      [] text = "UX/UI" -> "uxui"
      [] text = "Mobile" -> "mobile"
      [] text = "Security" -> "security"
      [] text = "Open Source" -> "open-source"
      [] text = "Learning" -> "learning"
      [] text = "API" -> "api"
      [] text = "Database" -> "database"
      [] text = "Cloud" -> "cloud"
      [] text = "Data Science" -> "data-science"
      [] text = "Personal" -> "personal"
      [] text = "Tips & Tricks" -> "tips-tricks"
      [] text = "uncategorized" -> "uncategorized"

\* a path under config.distDir
Path(kind, slug, page) == [kind |-> kind, slug |-> slug, page |-> page]

\* the text of an output: the posts it renders, each named by its source
\* file, the clock reading it embeds (0 when it embeds none) and the numbers
\* of the pages it links to
Content(posts, stamp) == [posts |-> Names(posts), stamp |-> stamp, links |-> {}]
PageContent(posts, links) == [posts |-> Names(posts), stamp |-> 0, links |-> links]

\* posts.slice(start, end), 0-based and end-exclusive
slice(s, start, end) == SubSeq(s, start + 1, Min(end, Len(s)))

\* the clock counts milliseconds, as mtimeMs and Date do
MsPerSecond == 1000
MsPerDay == 86400000

\* the second of a clock reading: new Date().toUTCString()
SecondOf(t) == t \div MsPerSecond

\* the calendar day of a clock reading: new Date().toISOString().split('T')[0]
DayOf(t) == t \div MsPerDay

\* the template files the page generator reads are in place
TemplatesPresent(f) == \A x \in TemplateFiles : f[x] # Absent

\* generatePostPages: one operation per post, in order
generatePostPages(posts) ==
    [k \in 1..Len(posts) |->
        [path |-> Path("post", posts[k].slug, 1), content |-> Content(<< posts[k] >>, 0)]]

\* generatePaginationUrls; a URL is the number of the page it leads to, 0
\* for undefined
generatePaginationUrls(currentPage, totalPages) ==
    [currentPage |-> currentPage,
     totalPages |-> totalPages,
     hasNext |-> currentPage < totalPages,
     hasPrev |-> currentPage > 1,
     nextUrl |-> IF currentPage < totalPages THEN currentPage + 1 ELSE 0,
     prevUrl |-> IF currentPage > 1 THEN currentPage - 1 ELSE 0]

\* renderPaginationHtml: the pages the Previous and Next elements link to
renderPaginationHtml(pagination) ==
    IF pagination.totalPages <= 1 THEN {}
    ELSE (IF pagination.hasPrev THEN {pagination.prevUrl} ELSE {})
         \cup (IF pagination.hasNext THEN {pagination.nextUrl} ELSE {})

\* the pages of a list of posts: page p renders the slice of its posts and
\* the pagination of p among Math.ceil(posts.length / postsPerPage) pages
ListPages(posts, perPage, first, other, cslug) ==
    LET totalPages == Ceil(Len(posts), perPage)
    IN  [p \in 1..totalPages |->
            [path |-> Path(IF p = 1 THEN first ELSE other, cslug, p),
             content |-> PageContent(slice(posts, (p - 1) * perPage, p * perPage),
                                     renderPaginationHtml(generatePaginationUrls(p, totalPages)))]]

\* generatePaginatedPages: page 1 is index.html, page n is page/n/index.html
generatePaginatedPages(posts, perPage) == ListPages(posts, perPage, "index", "page", "")

\* the slugs of the categories in the order groupPostsByCategory meets them
RECURSIVE CategorySlugs(_)
CategorySlugs(labels) ==
    IF labels = << >> THEN << >>
    ELSE IF Len(labels) = 1 THEN << slugify(labels[1]) >>
    ELSE LET half == Len(labels) \div 2
             front == CategorySlugs(SubSeq(labels, 1, half))
             back == CategorySlugs(SubSeq(labels, half + 1, Len(labels)))
         IN  front \o SelectSeq(back, LAMBDA s : s \notin Range(front))

\* the concatenation of a sequence of sequences
RECURSIVE Flatten(_)
Flatten(ss) ==
    IF ss = << >> THEN << >>
    ELSE IF Len(ss) = 1 THEN ss[1]
    ELSE LET half == Len(ss) \div 2
         IN  Flatten(SubSeq(ss, 1, half)) \o Flatten(SubSeq(ss, half + 1, Len(ss)))

\* mutant: a post is filed under its first category only
PostsOfCategory_FirstLabel(posts, cslug) ==
    SelectSeq(posts, LAMBDA post : slugify(post.categories[1]) = cslug)

\* groupPostsByCategory: the posts carrying a label of that slug, once per label
PostsOfCategory(posts, cslug) ==
    Flatten([k \in 1..Len(posts) |->
        LET hits == SelectSeq(posts[k].categories, LAMBDA c : slugify(c) = cslug)
        IN  [j \in 1..Len(hits) |-> posts[k]]])

\* getCategoryName: the first post's label of that slug, or the slug
getCategoryName(categoryPosts, categorySlug) ==
    LET hits == SelectSeq(categoryPosts[1].categories, LAMBDA cat : slugify(cat) = categorySlug)
    IN  IF hits = << >> THEN categorySlug ELSE hits[1]

\* generateCategoryPages of the richer generator: every group paginated
generateCategoryPages(posts, perPage) ==
    LET slugs == CategorySlugs(Flatten([k \in 1..Len(posts) |-> posts[k].categories]))
    IN  Flatten([c \in 1..Len(slugs) |->
            ListPages(PostsOfCategory(posts, slugs[c]), perPage,
                      "category", "categoryPage", slugs[c])])

\* generateCategoryPages of the older generator: one page per group
generateCategoryPagesLegacy(posts) ==
    LET slugs == CategorySlugs(Flatten([k \in 1..Len(posts) |-> posts[k].categories]))
    IN  [c \in 1..Len(slugs) |->
            [path |-> Path("category", slugs[c], 1),
             content |-> Content(PostsOfCategory(posts, slugs[c]), 0)]]

\* PageGenerator.generateAllPages
generateAllPages(posts) ==
    IF variant = "batched"
    THEN generatePostPages(posts) \o generatePaginatedPages(posts, PostsPerPageRich)
         \o generateCategoryPages(posts, PostsPerPageRich)
    ELSE generatePostPages(posts) \o generatePaginatedPages(posts, PostsPerPageLegacy)
         \o generateCategoryPagesLegacy(posts)

\* mutant: every post is an item of the feed
generateRSS_NoCap(posts, clock) == Content(posts, 1 + SecondOf(clock))

\* FeedGenerator.generateRSS: the first 10 posts and lastBuildDate = new Date()
generateRSS(posts, clock) == Content(slice(posts, 0, FeedLimit), 1 + SecondOf(clock))

\* FeedGenerator.generateAtom: `updated` is the newest post's date, or
\* new Date().toISOString(), to the millisecond, when there is no post
generateAtom(posts, clock) ==
    Content(slice(posts, 0, FeedLimit), IF posts = << >> THEN clock ELSE 0)

\* Date.prototype.toISOString throws RangeError on an invalid date
generateAtomThrows(posts) ==
    \E k \in 1..Min(Len(posts), FeedLimit) : DateGetTime(posts[k].date) = NaN

\* SitemapGenerator: the root, page and category entries carry today's
\* date; there is a /page/n/ entry for n = 2 .. Math.ceil(posts.length / 5)
generateSitemap(posts, clock) ==
    [posts |-> Names(posts), stamp |-> 1 + DayOf(clock),
     links |-> 2..Ceil(Len(posts), SitemapPostsPerPage)]

prepareFeedOperations(posts, clock) ==
    << [path |-> Path("feed", "", 1), content |-> generateRSS(posts, clock)],
       [path |-> Path("atom", "", 1), content |-> generateAtom(posts, clock)] >>

prepareSitemapOperations(posts, clock) ==
    << [path |-> Path("sitemap", "", 1), content |-> generateSitemap(posts, clock)] >>

\* one operation for each path of dup, in every way
RECURSIVE OnePerPath(_, _)
OnePerPath(done, dup) ==
    IF dup = {} THEN {{}}
    ELSE LET p == CHOOSE q \in dup : TRUE
         IN  { {op} \cup rest : op \in {o \in done : o.path = p},
                                rest \in OnePerPath(done, dup \ {p}) }

\* the files of `tree` after the writes of ops that do not fail: concurrent
\* writes to one path leave the content of any one of them
WriteOutcomes(tree, ops, blocked) ==
    LET done == {op \in Range(ops) : op.path.kind \notin blocked}
        paths == {op.path : op \in done}
        dup == {p \in paths : Cardinality({op \in done : op.path = p}) > 1}
        kept == {e \in tree : e.path \notin paths}
    IN  { kept \cup {op \in done : op.path \notin dup} \cup last :
            last \in OnePerPath(done, dup) }

\* some write of ops fails
WriteFails(ops, blocked) == \E op \in Range(ops) : op.path.kind \in blocked

----------------------------------------------------------------------------
(* BuildOrchestrator.build *)

NoExit == [ok |-> TRUE, caller |-> "none", error |-> "none"]

\* an activation of build(): `posts` is its local of that name, `genAt` the
\* clock reading at which its write operations were generated, 0 before
NewRun(caller) ==
    [pc |-> "ensureDirs", caller |-> caller, assets |-> "idle", style |-> StyleIdle,
     posts |-> << >>, genAt |-> 0]

\* mutant: the feeds and the sitemap are left out of the write set
Ops_PagesOnly(r) ==
    IF r.genAt = 0 THEN << >> ELSE generateAllPages(Posts(r.posts))

\* the write operations build() holds for its batch writer
Ops(r) ==
    IF r.genAt = 0 THEN << >>
    ELSE IF variant = "batched"
         THEN generateAllPages(Posts(r.posts)) \o prepareFeedOperations(Posts(r.posts), r.genAt)
              \o prepareSitemapOperations(Posts(r.posts), r.genAt)
         ELSE generateAllPages(Posts(r.posts))

Remove(s, i) == SubSeq(s, 1, i - 1) \o SubSeq(s, i + 1, Len(s))

Delay == IF variant = "batched" THEN DebounceDelay ELSE LegacyDelay

\* mutant: build() without its guard
GuardPasses_Always == TRUE

\* `if (this.isBuilding) return;`
GuardPasses == ~isBuilding

\* mutant: the flag is reset after the last step instead of in a finally block
GuardAfterExit_SuccessOnly(ok) == ~ok

\* `finally { this.isBuilding = false; }`
GuardAfterExit(ok) == FALSE

\* build(): the guard, `this.isBuilding = true`, up to the first await
Build(caller) ==
    IF GuardPasses /\ Len(runs) < MaxInFlight
    THEN /\ isBuilding' = TRUE
         /\ runs' = Append(runs, NewRun(caller))
         /\ quiet' = Min(quiet + 1, 2)
    ELSE UNCHANGED << isBuilding, runs, quiet >>

\* The process ends: an unhandled promise rejection is thrown as an uncaught
\* exception (node:24.8.0, no 'unhandledRejection' handler in index.ts)
Crash ==
    /\ alive' = FALSE
    /\ cli' = "crashed"
    /\ subscribed' = FALSE
    /\ isBuilding' = FALSE
    /\ isInitialBuild' = TRUE
    /\ runs' = << >>
    /\ orphans' = << >>
    /\ timers' = {}
    /\ timeout' = 0
    /\ burst' = 0
    /\ fires' = 0
    /\ calls' = 0
    /\ elapsed' = 0
    /\ dropped' = FALSE

\* build() of run i settles: the finally block, then its caller.  index.ts
\* chains .catch(console.error) on watch() and on build(); the timer callbacks
\* of debounce() and debouncedBuild drop the promise they get.
ExitRun(i, ok, e) ==
    LET r == runs[i] IN
    /\ lastExit' = [ok |-> ok, caller |-> r.caller, error |-> e]
    /\ prevStyle' = IF ok THEN StyleRecord(r.style) ELSE "none"
    /\ IF r.caller = "timer" /\ ~ok
       THEN Crash
       ELSE /\ isBuilding' = GuardAfterExit(ok)
            /\ runs' = Remove(runs, i)
            /\ orphans' = IF StyleRunning(r.style) THEN Append(orphans, r.style) ELSE orphans
            /\ isInitialBuild' = IF ok /\ variant = "batched" THEN FALSE ELSE isInitialBuild
            /\ cli' = IF r.caller = "main"
                      THEN (IF ok THEN "resolved" ELSE "rejected")
                      ELSE cli
            /\ UNCHANGED << alive, subscribed, timerVars, histTimerVars >>

\* what the steps of a run never touch
RunFrame == UNCHANGED << postsDir, unwritable, variant, mode, isProduction, now, quiet >>

\* a step of run i other than its exit
Advance(i, r) ==
    /\ runs' = [runs EXCEPT ![i] = r]
    /\ UNCHANGED << alive, cli, subscribed, isBuilding, isInitialBuild, orphans,
                    timerVars, histTimerVars, lastExit, prevStyle >>

\* await this.assetManager.ensureDirectories()
EnsureDirectories(i) ==
    /\ alive /\ i \in 1..Len(runs) /\ runs[i].pc = "ensureDirs"
    /\ \E ok \in BOOLEAN :
         IF ~ok THEN ExitRun(i, FALSE, "io")
         ELSE IF variant = "batched"
              THEN Advance(i, [runs[i] EXCEPT !.pc = "prep", !.assets = "running",
                                              !.style = StyleStart])
              ELSE Advance(i, [runs[i] EXCEPT !.pc = "assets", !.assets = "running"])
    /\ UNCHANGED << fs, dist >>
    /\ RunFrame

\* the pc after the asset copy and the style step, once both have settled
AfterPrep(r) ==
    IF variant = "batched"
    THEN (IF r.assets = "ok" /\ StyleDone(r.style) THEN "loadPosts" ELSE "prep")
    ELSE (IF StyleDone(r.style) THEN "loadPosts" ELSE "style")

\* AssetManager.copyPublicAssets settles.  Under Promise.all a rejection
\* settles build() at once and leaves compileIfNeeded running.
CopyPublicAssets(i) ==
    /\ alive /\ i \in 1..Len(runs) /\ runs[i].assets = "running"
    /\ \E ok \in BOOLEAN :
         IF ~ok
         THEN /\ StyleRunning(runs[i].style) => Len(orphans) < MaxOrphans
              /\ ExitRun(i, FALSE, "io")
         ELSE IF variant = "batched"
              THEN LET r == [runs[i] EXCEPT !.assets = "ok"]
                   IN  Advance(i, [r EXCEPT !.pc = AfterPrep(r)])
              ELSE Advance(i, [runs[i] EXCEPT !.pc = "style", !.assets = "ok",
                                              !.style = StyleStart])
    /\ UNCHANGED << fs, dist >>
    /\ RunFrame

\* one step of the compileIfNeeded() that run i awaits
StyleStep(i) ==
    /\ alive /\ i \in 1..Len(runs) /\ StyleRunning(runs[i].style)
    /\ \E o \in compileIfNeeded(runs[i].style, fs, now, isProduction) :
         /\ fs' = o.fs
         /\ UNCHANGED dist
         /\ LET r == [runs[i] EXCEPT !.style = o.task]
            IN  Advance(i, [r EXCEPT !.pc = AfterPrep(r)])
    /\ RunFrame

\* one step of a compileIfNeeded() whose build() has already settled
OrphanStyleStep(j) ==
    /\ alive /\ j \in 1..Len(orphans)
    /\ \E o \in compileIfNeeded(orphans[j], fs, now, isProduction) :
         /\ fs' = o.fs
         /\ UNCHANGED dist
         /\ orphans' = IF StyleDone(o.task) THEN Remove(orphans, j)
                       ELSE [orphans EXCEPT ![j] = o.task]
    /\ UNCHANGED << alive, cli, subscribed, isBuilding, isInitialBuild, runs,
                    timerVars, histTimerVars, lastExit, prevStyle >>
    /\ RunFrame

\* await this.postProcessor.loadPosts(): readdir, readFile and matter may throw
LoadPosts(i) ==
    /\ alive /\ i \in 1..Len(runs) /\ runs[i].pc = "loadPosts"
    /\ \E ok \in BOOLEAN :
         IF ok THEN Advance(i, [runs[i] EXCEPT !.pc = "generate",
                                               !.posts = Names(loadPosts(postsDir))])
               ELSE ExitRun(i, FALSE, "io")
    /\ UNCHANGED << fs, dist >>
    /\ RunFrame

\* the page generator reads a template: the richer one per page it renders
\* (TemplateEngine.loadTemplate), the older one before its loop
\* (PostProcessor.loadTemplate('post.html'))
TemplatesNeeded(posts) == IF variant = "batched" THEN posts # << >> ELSE TRUE

\* mutant: a missing template leaves the page out instead of throwing
GenerateError_SkipsMissingTemplate(posts, f) ==
    IF variant = "batched" /\ generateAtomThrows(posts) THEN "RangeError" ELSE "none"

\* what the generation step throws, "none" when it does not
GenerateError(posts, f) ==
    IF variant = "batched" /\ generateAtomThrows(posts) THEN "RangeError"
    ELSE IF TemplatesNeeded(posts) /\ ~TemplatesPresent(f)
         THEN (IF variant = "batched" THEN "ENOENT" ELSE "Template not found")
         ELSE "none"

\* batched: await Promise.all([generateAllPages, prepareFeedOperations,
\* prepareSitemapOperations]); sequential: await generateAllPages(posts).
\* ensureDirectory (mkdir under distDir) may fail when a page is generated.
Generate(i) ==
    /\ alive /\ i \in 1..Len(runs) /\ runs[i].pc = "generate"
    /\ LET r == runs[i]
           e == GenerateError(Posts(r.posts), fs)
       IN  IF e # "none" THEN ExitRun(i, FALSE, e)
           ELSE \E ok \in BOOLEAN :
                  IF ok \/ r.posts = << >>
                  THEN Advance(i, [r EXCEPT !.pc = "batchWrite", !.genAt = now])
                  ELSE ExitRun(i, FALSE, "io")
    /\ UNCHANGED << fs, dist >>
    /\ RunFrame

\* mutant: the writes are awaited with their failures ignored
BatchError_Swallowed(ops, blocked) == "none"

\* await Promise.all(ops.map(op => fs.writeFile(op.path, op.content))) rejects
\* with the error of a write that failed
BatchError(ops, blocked) == IF WriteFails(ops, blocked) THEN "EACCES" ELSE "none"

\* await this.batchWrite(...); the batched build() ends after it
BatchWrite(i) ==
    /\ alive /\ i \in 1..Len(runs) /\ runs[i].pc = "batchWrite"
    /\ dist' \in WriteOutcomes(dist, Ops(runs[i]), unwritable)
    /\ LET e == BatchError(Ops(runs[i]), unwritable)
       IN  IF e # "none" THEN ExitRun(i, FALSE, e)
           ELSE IF variant = "batched" THEN ExitRun(i, TRUE, "none")
                ELSE Advance(i, [runs[i] EXCEPT !.pc = "sitemap"])
    /\ UNCHANGED fs
    /\ RunFrame

\* sequential: await this.sitemapGenerator.generate(posts), which writes
\* sitemap.xml itself
GenerateSitemap(i) ==
    /\ alive /\ i \in 1..Len(runs) /\ runs[i].pc = "sitemap"
    /\ LET r == runs[i]
           ops == prepareSitemapOperations(Posts(r.posts), now)
       IN  /\ dist' \in WriteOutcomes(dist, ops, unwritable)
           /\ IF WriteFails(ops, unwritable) THEN ExitRun(i, FALSE, "EACCES")
              ELSE Advance(i, [r EXCEPT !.pc = "feeds"])
    /\ UNCHANGED fs
    /\ RunFrame

\* sequential: await this.generateFeeds(posts), which writes feed.xml and
\* atom.xml itself; build() ends after it
GenerateFeeds(i) ==
    /\ alive /\ i \in 1..Len(runs) /\ runs[i].pc = "feeds"
    /\ LET r == runs[i]
           ops == prepareFeedOperations(Posts(r.posts), now)
       IN  IF generateAtomThrows(Posts(r.posts))
           THEN /\ ExitRun(i, FALSE, "RangeError")
                /\ UNCHANGED dist
           ELSE /\ dist' \in WriteOutcomes(dist, ops, unwritable)
                /\ IF WriteFails(ops, unwritable) THEN ExitRun(i, FALSE, "EACCES")
                   ELSE ExitRun(i, TRUE, "none")
    /\ UNCHANGED fs
    /\ RunFrame

----------------------------------------------------------------------------
(* BuildOrchestrator.watch and the debounce timer *)

Max0(a) == IF a < 0 THEN 0 ELSE a

\* mutant: the pending timer is not cleared
cancelPending_Noop(T, h) == T

\* `if (timeout) clearTimeout(timeout);`: the runtime forgets the timer the
\* handle names; nothing happens when that timer has fired already
cancelPending(T, h) == {t \in T : t.id # h}

\* a timer handle no armed timer carries
FreshId(T) ==
    CHOOSE k \in 1..(Cardinality(T) + 1) :
        /\ \A t \in T : t.id # k
        /\ \A j \in 1..(k - 1) : \E t \in T : t.id = j

\* mutant: a callback that finds a build running re-arms itself to try again
afterFire_RetryWhenBusy(T, t) ==
    IF isBuilding THEN (T \ {t}) \cup {[t EXCEPT !.remaining = TickMs]} ELSE T \ {t}

\* `timeout = setTimeout(() => fn(...args), delay)`: setTimeout arms a one-shot
\* timer; the callback arms nothing, so what stays armed is the rest
afterFire(T, t) == T \ {t}

\* mutant: the closure arms no timer
armTimer_None(T, id) == T

\* `timeout = setTimeout(..., delay)`: one more timer is armed
armTimer(T, id) == T \cup {[id |-> id, remaining |-> Delay]}

\* the closure of debounce() / debouncedBuild, run by a watcher event
\* ('change', 'add' or 'unlink')
OnWatcherEvent ==
    /\ alive /\ subscribed
    /\ LET kept == cancelPending(timers, timeout)
           id == FreshId(kept)
       IN  /\ Cardinality(kept) < MaxTimers
           /\ timers' = armTimer(kept, id)
           /\ timeout' = id
    /\ burst' = IF fires > 0 THEN 1 ELSE Min(burst + 1, MaxBurst)
    /\ fires' = 0
    /\ calls' = 0
    /\ elapsed' = 0
    /\ dropped' = FALSE
    /\ UNCHANGED << unwritable, variant, mode, isProduction, alive, cli, subscribed, memVars,
                    fs, dist, now, lastExit, prevStyle >>

\* a watcher event for a file whose posts are as they were
WatcherEvent == OnWatcherEvent /\ UNCHANGED << postsDir, quiet >>

\* a post is saved into the posts directory and chokidar reports it ('add')
SavePost(file) ==
    /\ file \notin Range(postsDir)
    /\ postsDir' = Append(postsDir, file)
    /\ quiet' = 0
    /\ OnWatcherEvent

\* time passes
TimerTick ==
    /\ alive
    /\ \E t \in timers : t.remaining > 0
    /\ timers' = {[t EXCEPT !.remaining = Max0(t.remaining - TickMs)] : t \in timers}
    /\ elapsed' = Min(elapsed + TickMs, Delay)
    /\ UNCHANGED << postsDir, unwritable, variant, mode, isProduction, alive, cli, subscribed, memVars,
                    timeout, fs, dist, now, lastExit, burst, fires, calls, dropped, quiet,
                    prevStyle >>

\* batched: the timer set by debounce() expires and runs `fn(...args)`, which
\* is `this.build()`
DebounceTimerFires(t) ==
    /\ alive /\ variant = "batched"
    /\ t \in timers /\ t.remaining = 0
    /\ timers' = afterFire(timers, t)
    /\ Build("timer")
    /\ fires' = Min(fires + 1, 2)
    /\ calls' = Min(calls + 1, 2)
    /\ dropped' = IF runs' = runs THEN TRUE ELSE dropped
    /\ UNCHANGED << postsDir, unwritable, variant, mode, isProduction, alive, cli, subscribed,
                    isInitialBuild, orphans, timeout, fs, dist, now, lastExit, burst,
                    elapsed, prevStyle >>

\* sequential: the timer set by debouncedBuild expires and runs
\* `if (!this.isBuilding) { await this.build(); }`
LegacyTimerFires(t) ==
    /\ alive /\ variant = "sequential"
    /\ t \in timers /\ t.remaining = 0
    /\ timers' = afterFire(timers, t)
    /\ IF ~isBuilding
       THEN /\ Build("timer")
            /\ calls' = Min(calls + 1, 2)
       ELSE UNCHANGED << isBuilding, runs, quiet, calls >>
    /\ fires' = Min(fires + 1, 2)
    /\ dropped' = IF runs' = runs THEN TRUE ELSE dropped
    /\ UNCHANGED << postsDir, unwritable, variant, mode, isProduction, alive, cli, subscribed,
                    isInitialBuild, orphans, timeout, fs, dist, now, lastExit, burst,
                    elapsed, prevStyle >>

\* index.ts: `orchestrator.watch()` registers the three handlers and awaits the
\* first build(); `orchestrator.build()` otherwise
Main ==
    /\ alive /\ cli = "start"
    /\ cli' = "running"
    /\ subscribed' = (mode = "watch")
    /\ Build("main")
    /\ UNCHANGED << postsDir, unwritable, variant, mode, isProduction, alive, isInitialBuild, orphans,
                    timerVars, histTimerVars, fs, dist, now, lastExit, prevStyle >>

----------------------------------------------------------------------------
(* The environment *)

\* the command is run again, once the process has ended: a one-shot build
\* whose work is over, or a crashed process
Relaunch(m) ==
    /\ \/ ~alive
       \/ mode = "build" /\ cli \in {"resolved", "rejected"} /\ orphans = << >>
    /\ mode' = m
    /\ alive' = TRUE
    /\ cli' = "start"
    /\ subscribed' = FALSE
    /\ isBuilding' = FALSE
    /\ isInitialBuild' = TRUE
    /\ runs' = << >>
    /\ orphans' = << >>
    /\ timers' = {}
    /\ timeout' = 0
    /\ lastExit' = NoExit
    /\ burst' = 0 /\ fires' = 0 /\ calls' = 0 /\ elapsed' = 0 /\ dropped' = FALSE
    /\ UNCHANGED << postsDir, unwritable, variant, isProduction, fs, dist, now, quiet, prevStyle >>

envFrame == UNCHANGED << dist, postsDir, unwritable, variant, mode, isProduction, alive, cli, subscribed, memVars,
                         timerVars, histTimerVars, lastExit, prevStyle >>

\* a stylesheet source or a template is saved
EditSource(file) ==
    /\ file \in Candidates
    /\ fs' = [fs EXCEPT ![file] = [mtime |-> now, content |-> now]]
    /\ quiet' = 0
    /\ UNCHANGED now
    /\ envFrame

\* the wall clock advances
ClockTick ==
    /\ now < MaxTime
    /\ now' = now + 1
    /\ UNCHANGED << fs, quiet >>
    /\ envFrame

\* time passes between two steps: a second, or a day
PassTime ==
    /\ now < MaxSeconds * MsPerSecond
    /\ \E d \in {MsPerSecond, MsPerDay} : now' = now + d
    /\ UNCHANGED << fs, quiet >>
    /\ envFrame

----------------------------------------------------------------------------
(* Specifications *)

Fresh == [mtime |-> 1, content |-> 1]

\* the repository as checked out: one post, nothing generated yet, every
\* output writable
InitDisk ==
    /\ postsDir = << "welcome.md" >>
    /\ dist = {}
    /\ unwritable = {}

InitMemory ==
    /\ alive = TRUE
    /\ cli = "start"
    /\ subscribed = FALSE
    /\ isBuilding = FALSE
    /\ isInitialBuild = TRUE
    /\ runs = << >>
    /\ orphans = << >>
    /\ timers = {}
    /\ timeout = 0
    /\ lastExit = NoExit
    /\ burst = 0 /\ fires = 0 /\ calls = 0 /\ elapsed = 0 /\ dropped = FALSE
    /\ quiet = 0
    /\ prevStyle = "none"

\* a checkout that was never built
Init ==
    /\ variant \in {"batched", "sequential"}
    /\ mode \in {"watch", "build"}
    /\ isProduction \in BOOLEAN
    /\ now = 1
    /\ fs = [x \in Files |-> IF x \in Candidates THEN Fresh ELSE Absent]
    /\ InitDisk
    /\ InitMemory

\* the steps of build() the two orchestrators share
RunStep ==
    \E i \in 1..MaxInFlight :
        \/ EnsureDirectories(i)
        \/ CopyPublicAssets(i)
        \/ StyleStep(i)
        \/ LoadPosts(i)
        \/ Generate(i)
        \/ BatchWrite(i)

\* the steps of build() that follow batchWrite in the sequential orchestrator
SequentialStep ==
    \E i \in 1..MaxInFlight :
        \/ GenerateSitemap(i)
        \/ GenerateFeeds(i)

Next ==
    \/ Main
    \/ RunStep
    \/ SequentialStep
    \/ \E j \in 1..MaxOrphans : OrphanStyleStep(j)
    \/ WatcherEvent
    \/ TimerTick
    \/ \E t \in timers : DebounceTimerFires(t)
    \/ \E t \in timers : LegacyTimerFires(t)
    \/ \E m \in {"watch", "build"} : Relaunch(m)

Spec == Init /\ [][Next]_vars

\* the posts saved while the orchestrator watches
WatchedPosts == {"a.md", "b.md"}

\* `npm run dev` on the checkout, its stylesheet compiled or not; posts are
\* saved while it watches
InitWatch ==
    /\ variant \in {"batched", "sequential"}
    /\ mode = "watch"
    /\ isProduction = FALSE
    /\ now = 1
    /\ \E out \in {Absent, Fresh} :
         fs = [x \in Files |-> IF x \in {OutputFile, MapFile} THEN out ELSE Fresh]
    /\ InitDisk
    /\ InitMemory

NextWatch ==
    \/ Main
    \/ RunStep
    \/ SequentialStep
    \/ \E j \in 1..MaxOrphans : OrphanStyleStep(j)
    \/ \E file \in WatchedPosts : SavePost(file)
    \/ TimerTick
    \/ \E t \in timers : DebounceTimerFires(t)
    \/ \E t \in timers : LegacyTimerFires(t)

SpecWatch == InitWatch /\ [][NextWatch]_vars

\* the event loop runs every callback that is ready and every timer expires
FairWatch ==
    /\ WF_vars(Main)
    /\ WF_vars(RunStep)
    /\ WF_vars(SequentialStep)
    /\ WF_vars(\E j \in 1..MaxOrphans : OrphanStyleStep(j))
    /\ WF_vars(TimerTick)
    /\ WF_vars(\E t \in timers : DebounceTimerFires(t))
    /\ WF_vars(\E t \in timers : LegacyTimerFires(t))

\* `npm run dev` with an empty posts directory; the watcher reports changes
\* of files under src/ again and again
InitWatchEmpty ==
    /\ variant \in {"batched", "sequential"}
    /\ mode = "watch"
    /\ isProduction = FALSE
    /\ now = 1
    /\ \E out \in {Absent, Fresh} :
         fs = [x \in Files |-> IF x \in {OutputFile, MapFile} THEN out ELSE Fresh]
    /\ postsDir = << >>
    /\ dist = {}
    /\ unwritable = {}
    /\ InitMemory

NextWatchEvents ==
    \/ Main
    \/ RunStep
    \/ SequentialStep
    \/ \E j \in 1..MaxOrphans : OrphanStyleStep(j)
    \/ WatcherEvent
    \/ TimerTick
    \/ \E t \in timers : DebounceTimerFires(t)
    \/ \E t \in timers : LegacyTimerFires(t)

SpecWatchFair == InitWatchEmpty /\ [][NextWatchEvents]_vars /\ FairWatch

\* any state of the source and output files a one-shot build can meet; the
\* batched orchestrator, which runs the style step beside the asset copy
InitStyle ==
    /\ variant = "batched"
    /\ mode = "build"
    /\ isProduction \in BOOLEAN
    /\ now = 1
    /\ \E out \in {Absent, Fresh} :
       \E present \in SUBSET Candidates :
          fs = [x \in Files |->
                  IF x \in Candidates THEN (IF x \in present THEN Fresh ELSE Absent)
                  ELSE IF x = OutputFile THEN out
                  ELSE IF isProduction THEN Absent ELSE out]
    /\ InitDisk
    /\ InitMemory

NextStyle ==
    \/ Main
    \/ RunStep
    \/ \E j \in 1..MaxOrphans : OrphanStyleStep(j)
    \/ Relaunch("build")
    \/ \E file \in Candidates : EditSource(file)
    \/ ClockTick

SpecStyle == InitStyle /\ [][NextStyle]_vars

\* the source files a posts directory is filled from
SourceFiles ==
    { "a.md", "b.md", "c.md", "baddate.md", "textdate.md", "nocat.md", "badcat.md",
      "notitle.md", "emptytitle.md", "blanktitle.md", "numtitle.md",
      "nodate.md", "emptydate.md", "blankdate.md", "yamldate.md" }

\* what readdir can return: distinct names, in any order
Directories ==
    { d \in UNION {[1..n -> SourceFiles] : n \in 0..MaxFiles} :
        \A j, k \in 1..Len(d) : j # k => d[j] # d[k] }

\* a one-shot build of the sequential orchestrator over any posts directory,
\* the stylesheet being up to date
InitPosts ==
    /\ variant = "sequential"
    /\ mode = "build"
    /\ isProduction = FALSE
    /\ now = 1
    /\ fs = [x \in Files |-> Fresh]
    /\ postsDir \in Directories
    /\ dist = {}
    /\ unwritable = {}
    /\ InitMemory

\* build() up to the return of loadPosts
NextPosts ==
    \/ Main
    \/ \E i \in 1..MaxInFlight :
          \/ EnsureDirectories(i)
          \/ CopyPublicAssets(i)
          \/ StyleStep(i)
          \/ LoadPosts(i)

SpecPosts == InitPosts /\ [][NextPosts]_vars

\* the posts directories of the full builds
BuildDirectories == { << >>, << "welcome.md" >>, << "a.md", "baddate.md" >> }

\* the kinds of output that may be unwritable
Unwritables == { {}, {"post"}, {"feed"}, {"sitemap"} }

\* one-shot builds, run again and again at later times with no source
\* modified: the stylesheet is up to date or was never compiled, the page
\* template may be missing, some outputs may be unwritable
InitBuild ==
    /\ variant \in {"batched", "sequential"}
    /\ mode = "build"
    /\ isProduction = FALSE
    /\ now = 1
    /\ \E template, out \in {Absent, Fresh} :
          fs = [x \in Files |-> IF x \in TemplateFiles THEN template
                                ELSE IF x \in {OutputFile, MapFile} THEN out
                                ELSE Fresh]
    /\ postsDir \in BuildDirectories
    /\ dist = {}
    /\ unwritable \in Unwritables
    /\ InitMemory

NextBuild ==
    \/ Main
    \/ RunStep
    \/ SequentialStep
    \/ \E j \in 1..MaxOrphans : OrphanStyleStep(j)
    \/ Relaunch("build")
    \/ PassTime

SpecBuild == InitBuild /\ [][NextBuild]_vars

\* the first n files of the series
Series(n) == [k \in 1..n |-> SeriesFile(k)]

\* the posts directories of the page builds: a series of any length, alone
\* or listed before a newer post; posts whose slugs coincide; posts under
\* several categories
PageDirectories ==
    { Series(n) \o extra : n \in 0..MaxPosts, extra \in { << >>, << "b.md" >> } }
    \cup { << "a.md", "hi.md" >>, << "dup.md", "multi.md", "b.md" >> }

\* a one-shot build over any of these directories, the templates in place
\* and every output writable
InitPages ==
    /\ variant \in {"batched", "sequential"}
    /\ mode = "build"
    /\ isProduction = FALSE
    /\ now = 1
    /\ \E out \in {Absent, Fresh} :
          fs = [x \in Files |-> IF x \in {OutputFile, MapFile} THEN out ELSE Fresh]
    /\ postsDir \in PageDirectories
    /\ dist = {}
    /\ unwritable = {}
    /\ InitMemory

NextPages ==
    \/ Main
    \/ RunStep
    \/ SequentialStep
    \/ \E j \in 1..MaxOrphans : OrphanStyleStep(j)

SpecPages == InitPages /\ [][NextPages]_vars

----------------------------------------------------------------------------
(* Properties of the orchestrator, under Spec *)

\* the step is a run of the debounce timer's callback
CallbackRan == fires' > fires

\* the step passes the guard of build()
BuildStarted == Len(runs') > Len(runs)

\* the step settles a build() that had passed the guard
BuildExited == Len(runs') < Len(runs)

(* C1: at most one build is in flight at any time: in every reachable state at
   most one activation of build() is past the isBuilding guard, and a build()
   call made while a build is running (the timer callback of debounce()) returns
   at once: it starts nothing, runs no build step and raises no error. *)
C1_AtMostOneBuildInFlight ==
    /\ [](Len(runs) <= 1)
    /\ [][(CallbackRan /\ isBuilding) =>
            /\ runs' = runs
            /\ isBuilding'
            /\ fs' = fs
            /\ alive' /\ cli' = cli /\ lastExit' = lastExit]_vars

\* build() was called by the timer while the first build was still running
C1_Witness ==
    /\ variant = "batched" /\ calls = 1 /\ dropped
    /\ Len(runs) = 1 /\ runs[1].caller = "main"

(* C2: debounce coalescing: however many notifications arrive before the delay
   started by the previous one has run out, one timer is pending, its callback
   runs once, only when the full delay has elapsed after the last notification,
   and (with debounce(), the batched variant) it invokes build() exactly once. *)
C2_DebounceCoalescing ==
    /\ [](alive =>
            /\ Cardinality(timers) <= 1
            /\ fires <= 1 /\ calls <= 1
            /\ (timers # {}) <=> (burst > 0 /\ fires = 0))
    /\ [][CallbackRan =>
            /\ elapsed >= Delay
            /\ timers' = {}
            /\ variant = "batched" => calls' = calls + 1]_vars

\* a burst of at least two notifications was answered by one build() call
C2_Witness == variant = "batched" /\ burst >= 2 /\ fires = 1 /\ calls = 1 /\ timers = {}

(* C3: a rebuild trigger that fires while a build is in progress is dropped, not
   queued: the callback starts no build and leaves no timer armed, and until a
   later notification arrives no build is started, neither then nor when the
   running build completes. *)
C3_BusyTriggerDropped ==
    /\ [][(CallbackRan /\ isBuilding) =>
            (runs' = runs /\ timers' = {} /\ dropped')]_vars
    /\ [](dropped /\ alive => timers = {})
    /\ [][dropped => ~BuildStarted]_vars

\* the trigger was dropped, the running build has completed, and nothing runs
C3_Witness ==
    /\ alive /\ subscribed /\ dropped
    /\ runs = << >> /\ ~isBuilding /\ lastExit.caller = "main"

(* C4: the in-flight guard is released on every exit from a build: when a
   build() that passed the guard settles, by success or by a throwing step,
   isBuilding is false afterwards, it is never left set with no build running,
   and the next build() call passes the guard and starts a full build. *)
C4_GuardReleasedOnEveryExit ==
    /\ [][BuildExited => ~isBuilding']_vars
    /\ [](runs = << >> => ~isBuilding)
    /\ [][(CallbackRan /\ ~isBuilding) =>
            /\ BuildStarted
            /\ runs'[Len(runs')].pc = "ensureDirs"
            /\ isBuilding']_vars

\* a build failed and the build() call after it is running a full build
C4_Witness ==
    /\ lastExit.caller = "main" /\ ~lastExit.ok
    /\ Len(runs) = 1 /\ runs[1].caller = "timer" /\ runs[1].pc = "loadPosts"

(* C5: in watch mode a failing build does not bring the process down: when a
   build started by the debounce timer fails, the failure is handled at the
   trigger site, the process lives on and the watcher stays subscribed. *)
C5_WatchSurvivesFailedBuild ==
    (lastExit.caller = "timer" /\ ~lastExit.ok) => (alive /\ subscribed)

(* C16: watch() performs its one immediate build() first and subscribes to
   file notifications only afterwards: while the initial build has not settled
   no change/add/unlink handler is registered and no debounce timer is armed. *)
C16_SubscribesAfterInitialBuild ==
    cli \in {"start", "running"} => ~subscribed /\ timers = {}

----------------------------------------------------------------------------
(* Properties of the style step, under SpecStyle *)

\* the latest modification time among the candidates; a missing one counts 0
MaxCandidateTime(f, S) ==
    LET times == {getModTime(f, x) : x \in S}
    IN  CHOOSE m \in times : \A n \in times : n <= m

\* run i is an activation of compileIfNeeded() that takes its next step
StyleStepOf(i) ==
    /\ i \in 1..Len(runs) /\ i \in 1..Len(runs')
    /\ runs'[i].style # runs[i].style

(* C6: the staleness decision equals (latest modification time over all the
   candidates) > (modification time of the compiled output): a candidate newer
   than the output makes it stale, candidates all older do not, and a candidate
   whose time equals the output's does not.  So does the decision of
   build.ts over its candidates (the .scss files), and the branch
   compileIfNeeded takes is the one the decision names. *)
C6_StalenessIsMaxGreaterThanOutput ==
    /\ [](LET latest == MaxCandidateTime(fs, Candidates)
              latestScss == MaxCandidateTime(fs, ScssFiles)
              outputTime == getModTime(fs, OutputFile)
          IN  /\ needsRecompile(fs) = (latest > outputTime)
              /\ compileStylesIfNeededStale(fs) = (latestScss > outputTime)
              /\ (\E x \in Candidates : getModTime(fs, x) > outputTime) => needsRecompile(fs)
              /\ (\A x \in Candidates : getModTime(fs, x) < outputTime) => ~needsRecompile(fs)
              /\ (latest = outputTime) => ~needsRecompile(fs))
    /\ [][\A i \in 1..MaxInFlight :
            (StyleStepOf(i) /\ runs[i].style.pc = "check") =>
                (runs'[i].style.pc = "mkdir") =
                    (MaxCandidateTime(fs, Candidates) > getModTime(fs, OutputFile))]_vars

\* a tie: the newest candidate and the output carry the same time, and the step skipped
C6_Witness ==
    /\ Len(runs) = 1 /\ runs[1].style.pc = "skipped"
    /\ fs[OutputFile] # Absent
    /\ \E x \in Candidates : fs[x] # Absent
    /\ MaxCandidateTime(fs, Candidates) = getModTime(fs, OutputFile)

(* C7: a compiled output that does not exist is always stale, whatever the
   candidates (none, or all of them missing); with no candidate and the output
   present the check answers false. *)
C7_AbsentOutputAlwaysStale ==
    /\ (fs[OutputFile] = Absent) => needsRecompile(fs)
    /\ (Glob(fs, Candidates) = {} /\ fs[OutputFile] # Absent) => ~needsRecompile(fs)

(* C8: a failure of the style compilation is not fatal and leaves the previous
   output alone: when a step of compileIfNeeded throws, compileIfNeeded returns
   normally, the build goes on to load the posts, and this activation has not
   touched the stylesheet file. *)
C8_StyleFailureLeavesOutputAlone ==
    \A i \in 1..Len(runs) :
        runs[i].style.pc = "failed" =>
            /\ ~runs[i].style.wrote
            /\ runs[i].pc # "style"

(* C9: when the compiled stylesheet is not stale, the style step compiles
   nothing and writes nothing: it returns at the check, and the stylesheet and
   its source map keep their content and modification time. *)
C9_NotStaleNoCompileNoWrite ==
    /\ [][\A i \in 1..MaxInFlight :
            (StyleStepOf(i) /\ runs[i].style.pc = "check" /\ ~needsRecompile(fs)) =>
                /\ runs'[i].style.pc = "skipped"
                /\ runs'[i].style.css = 0 /\ ~runs'[i].style.wrote
                /\ fs' = fs]_vars
    /\ [][\A i \in 1..MaxInFlight :
            (StyleStepOf(i) /\ runs[i].style.pc = "skipped") => FALSE]_vars
    /\ [](\A i \in 1..Len(runs) :
            runs[i].style.pc = "skipped" =>
                (runs[i].style.css = 0 /\ ~runs[i].style.wrote))

\* the step skipped with a stylesheet and its sources in place
C9_Witness ==
    /\ Len(runs) = 1 /\ runs[1].style.pc = "skipped" /\ runs[1].pc = "loadPosts"
    /\ fs[OutputFile] # Absent /\ fs[ScssFile] # Absent
    /\ ~needsRecompile(fs)

(* C10 as stated: of two full builds in succession with no source modified in
   between, the style step of the second takes the skip branch. *)
C10_SecondBuildSkips ==
    \A i \in 1..Len(runs) :
        (quiet = 2 /\ prevStyle # "none" /\ StyleDone(runs[i].style)) =>
            runs[i].style.pc = "skipped"

(* C10, amended: of two full builds in succession with no source modified in
   between, the style step of the second takes the skip branch when the style
   step of the first compiled or skipped (did not fail). *)
C10_SecondBuildSkipsAfterStyleDone ==
    \A i \in 1..Len(runs) :
        (quiet = 2 /\ prevStyle \in {"compiled", "skipped"} /\ StyleDone(runs[i].style)) =>
            runs[i].style.pc = "skipped"

\* the first build compiled, the second skipped
C10_Witness ==
    /\ quiet = 2 /\ prevStyle = "compiled"
    /\ Len(runs) = 1 /\ runs[1].style.pc = "skipped"

(* C28: a failed style compilation is retried: when the style step of a build
   found the stylesheet stale and failed before writing it, and no file
   changes before the next build, the style step of that build finds the
   stylesheet stale again and attempts the compilation, it does not skip. *)
C28_FailedCompilationRetried ==
    \A i \in 1..Len(runs) :
        (quiet = 2 /\ prevStyle = "failedBeforeWrite") =>
            /\ runs[i].style.pc # "skipped"
            /\ (runs[i].style.pc = "check" => needsRecompile(fs))

\* the build after the failed one compiled the stylesheet
C28_Witness ==
    /\ quiet = 2 /\ prevStyle = "failedBeforeWrite"
    /\ Len(runs) = 1 /\ runs[1].style.pc = "compiled" /\ runs[1].style.wrote
    /\ ~needsRecompile(fs)

----------------------------------------------------------------------------
(* Properties of watch mode with posts saved, under SpecWatch *)

\* no timer is pending and no build is running
AtRest == timers = {} /\ ~isBuilding /\ runs = << >>

\* a post of the directory has no page in the output tree
OutputStale ==
    \E post \in Range(loadPosts(postsDir)) :
        ~\E e \in dist : e.path = Path("post", post.slug, 1)
                         /\ e.content.posts = << post.file >>

(* C24: a lost-update window exists in watch mode: a post is saved after the
   running build has read its inputs, the debounce timer of that event
   expires before the build finishes and the trigger is dropped, and the
   system comes to rest with an output tree that does not show the post.  It
   is the only way to a stale tree at rest after a build that succeeded: such
   a state has always dropped a trigger. *)
C24_StaleAtRestOnlyAfterDrop ==
    (alive /\ cli # "start" /\ AtRest /\ lastExit.ok /\ OutputStale) => dropped

\* at rest after a successful build, the tree written, the saved post not in it
C24_Witness ==
    /\ alive /\ mode = "watch" /\ subscribed
    /\ AtRest /\ lastExit.ok /\ dropped
    /\ "a.md" \in Range(postsDir)
    /\ dist # {}
    /\ OutputStale

(* C29: watch mode comes to rest: if the file-change notifications
   eventually stop, with every build step terminating and the event loop
   running every ready callback, the orchestrator reaches and stays in a
   state with no pending debounce timer, isBuilding false and no build in
   progress, so only finitely many builds are started. *)
C29_WatchComesToRest == <>[][~WatcherEvent]_vars => <>[]AtRest

\* at rest in a live watcher after a build the timer of a burst started
C29_Witness ==
    /\ alive /\ mode = "watch" /\ subscribed /\ AtRest
    /\ lastExit.caller = "timer" /\ lastExit.ok
    /\ burst = MaxBurst /\ fires = 1 /\ calls = 1

----------------------------------------------------------------------------
(* Properties of the full build, under SpecBuild *)

PathsOf(ops) == {op.path : op \in Range(ops)}

\* every output a build over these posts generates, whatever the clock
AllOutputs(posts) ==
    PathsOf(generateAllPages(posts)) \cup PathsOf(prepareFeedOperations(posts, 0))
    \cup PathsOf(prepareSitemapOperations(posts, 0))

\* the step is taken by run i and leaves program counter pc
StepFrom(i, pc) ==
    /\ i \in 1..Len(runs) /\ runs[i].pc = pc
    /\ \/ Len(runs') < Len(runs)
       \/ ~alive'
       \/ Len(runs') = Len(runs) /\ runs'[i] # runs[i]

(* C11: running a full build twice in succession with no source file modified
   between the runs, every file of the output tree (pages, feed.xml, atom.xml,
   sitemap.xml, stylesheet) has the same content after the second run as after
   the first, whatever the wall-clock time of each run: no step of a build
   that follows a build completed in all its steps changes the content of the
   tree. *)
C11_SecondBuildByteIdentical ==
    [][ (quiet = 2 /\ prevStyle \in {"compiled", "skipped"}) =>
            /\ dist' = dist
            /\ fs'[OutputFile].content = fs[OutputFile].content ]_vars

(* C12: within one build the generation of post pages, index pages, category
   pages, feeds and the sitemap is complete before the batch writer is
   invoked, and every write has been made when the build reports completion
   and releases the guard. *)
C12_GenerateAllThenWriteAll ==
    [][ \A i \in 1..Len(runs) :
            /\ runs[i].pc = "batchWrite" =>
                    AllOutputs(Posts(runs[i].posts)) \subseteq PathsOf(Ops(runs[i]))
            /\ (Len(runs') < Len(runs) /\ lastExit'.ok) =>
                    /\ AllOutputs(Posts(runs[i].posts)) \subseteq {e.path : e \in dist'}
                    /\ ~isBuilding' ]_vars

(* C13: the output directory tree is mutated only by the batch writer: a step
   that changes a file under the output root (a page, a feed, the sitemap, the
   stylesheet or its map) is the batch writer's. *)
C13_OnlyBatchWriterMutatesOutput ==
    [][ (dist' # dist \/ fs'[OutputFile] # fs[OutputFile] \/ fs'[MapFile] # fs[MapFile]) =>
            \E i \in 1..Len(runs) : StepFrom(i, "batchWrite") ]_vars

(* C14: a write failure is never silently absorbed: when the write of an
   output of the batch fails, build() rejects with the error of the write, it
   does not report completion and it does not go on to a later step, and the
   guard is released. *)
C14_WriteFailureRejectsBuild ==
    [][ \A i \in 1..Len(runs) :
            (StepFrom(i, "batchWrite") /\ WriteFails(Ops(runs[i]), unwritable)) =>
                /\ lastExit' = [ok |-> FALSE, caller |-> runs[i].caller, error |-> "EACCES"]
                /\ Len(runs') < Len(runs)
                /\ cli' = "rejected"
                /\ ~isBuilding' ]_vars

\* a build was rejected for a failed write; the writes that did not fail are
\* in the tree
C14_Witness ==
    /\ lastExit = [ok |-> FALSE, caller |-> "main", error |-> "EACCES"]
    /\ cli = "rejected"
    /\ dist # {}
    /\ \E e \in dist : e.path.kind = "sitemap"
    /\ \A e \in dist : e.path.kind # "feed"

\* the errors of the two template loaders
TemplateErrors == {"ENOENT", "Template not found"}

(* C15: a missing required template is fatal to the current build: when a
   template the page set needs is absent, the generation step rejects build()
   with the error it threw (the loader's, unless feed generation threw before
   a page was rendered), the tree is left as it was and the batch writer is
   never reached. *)
C15_MissingTemplateIsFatal ==
    [][ \A i \in 1..Len(runs) :
            LET posts == Posts(runs[i].posts)
                missing == TemplatesNeeded(posts) /\ ~TemplatesPresent(fs)
            IN  /\ missing => runs[i].pc \notin {"batchWrite", "sitemap", "feeds"}
                /\ (missing /\ StepFrom(i, "generate")) =>
                      /\ Len(runs') < Len(runs)
                      /\ ~lastExit'.ok
                      /\ lastExit'.caller = runs[i].caller
                      /\ lastExit'.error \in TemplateErrors \cup {"RangeError"}
                      /\ lastExit'.error = "RangeError" =>
                            variant = "batched" /\ generateAtomThrows(posts)
                      /\ cli' = "rejected"
                      /\ dist' = dist ]_vars

\* a build over a post was rejected with the template loader's error and
\* wrote nothing
C15_Witness ==
    /\ lastExit.ok = FALSE /\ lastExit.error \in TemplateErrors
    /\ cli = "rejected"
    /\ postsDir # << >>
    /\ ~TemplatesPresent(fs)
    /\ dist = {}

----------------------------------------------------------------------------
(* Properties of the generators, under SpecPages *)

\* the page size of the page generator in use
PageSize == IF variant = "batched" THEN PostsPerPageRich ELSE PostsPerPageLegacy

Max(a, b) == IF a > b THEN a ELSE b

\* the claimed pagination of a list of n posts: max(1, ceil(n / size)) pages,
\* no Previous on the first, no Next on the last, both in between
ClaimedPagination(pages, n, size) ==
    LET totalPages == Max(1, Ceil(n, size))
    IN  /\ pages = 1..totalPages
        /\ \A p \in pages :
              LET pagination == generatePaginationUrls(p, totalPages)
              IN  /\ p = 1 => ~pagination.hasPrev
                  /\ p = totalPages => ~pagination.hasNext
                  /\ (1 < p /\ p < totalPages) => pagination.hasPrev /\ pagination.hasNext

\* the page numbers of the operations of these kinds (and slug)
PageNumbers(ops, kinds, cslug) ==
    {op.path.page : op \in {o \in Range(ops) : o.path.kind \in kinds /\ o.path.slug = cslug}}

AllSlugs == {slugify(c) : c \in PREDEFINED_CATEGORIES}

(* C21: pagination of every page list (the global index and, where category
   lists are paginated, each category): for N posts and page size S the pages
   handed to the batch writer are 1 .. max(1, ceil(N/S)); page 1 has hasPrev
   false, the last page has hasNext false, every page between has both true. *)
C21_PaginationWithFloor ==
    \A i \in 1..Len(runs) :
        runs[i].pc = "batchWrite" =>
            LET posts == Posts(runs[i].posts)
                ops == Ops(runs[i])
            IN  /\ ClaimedPagination(PageNumbers(ops, {"index", "page"}, ""),
                                     Len(posts), PageSize)
                /\ variant = "batched" =>
                      \A cslug \in AllSlugs :
                          PostsOfCategory(posts, cslug) # << >> =>
                              ClaimedPagination(
                                  PageNumbers(ops, {"category", "categoryPage"}, cslug),
                                  Len(PostsOfCategory(posts, cslug)), PageSize)

\* the outputs of a kind in the tree
Outputs(kind) == {e \in dist : e.path.kind = kind}

(* C22: with zero posts in the source directory the build succeeds and its
   outputs contain index.html for page 1 with an empty post list and no
   pagination links, feed.xml and atom.xml with no item, and sitemap.xml with
   the site root as its only url. *)
C22_EmptySiteHasIndex ==
    (postsDir = << >> /\ cli = "resolved") =>
        /\ \E e \in Outputs("index") :
              e.path.page = 1 /\ e.content.posts = << >> /\ e.content.links = {}
        /\ \E e \in Outputs("feed") : e.content.posts = << >>
        /\ \E e \in Outputs("atom") : e.content.posts = << >>
        /\ \E e \in Outputs("sitemap") : e.content.posts = << >> /\ e.content.links = {}

\* the collection loadPosts returns for the directory
Collection == Names(loadPosts(postsDir))

(* C23: feed item cap: for a date-descending collection of N valid posts the
   RSS output and the Atom output of a completed build each hold exactly
   min(N, 10) items, the first min(N, 10) posts of the collection in that
   order. *)
C23_FeedItemCap ==
    cli = "resolved" =>
        /\ Outputs("feed") # {} /\ Outputs("atom") # {}
        /\ \A e \in Outputs("feed") \cup Outputs("atom") :
              /\ Len(e.content.posts) = Min(Len(Collection), FeedLimit)
              /\ e.content.posts = SubSeq(Collection, 1, Min(Len(Collection), FeedLimit))

\* a build over more than ten posts is complete: the feeds start with the
\* newest post and leave the later posts of the series out
C23_Witness ==
    /\ cli = "resolved"
    /\ Len(Collection) > FeedLimit + 1
    /\ Collection[1] = "b.md"
    /\ \E e \in Outputs("feed") : e.content.posts[1] = "b.md" /\ Len(e.content.posts) = FeedLimit
    /\ \E e \in Outputs("atom") : e.content.posts[1] = "b.md" /\ Len(e.content.posts) = FeedLimit

\* the place of a post in the collection
IndexIn(posts, post) == CHOOSE k \in 1..Len(posts) : posts[k].file = post.file

(* C25: category grouping: a post is in the group of slug s exactly when one of
   its labels normalizes to s; each group lists its posts in the order of the
   input collection; the display name of a slug is the first label of the
   first post of its group that normalizes to the slug; the first category
   page renders the head of the group. *)
C25_CategoryGrouping ==
    \A i \in 1..Len(runs) :
        runs[i].pc = "batchWrite" =>
            LET posts == Posts(runs[i].posts)
            IN  \A cslug \in AllSlugs :
                    LET group == PostsOfCategory(posts, cslug)
                        labels == IF group = << >> THEN << >>
                                  ELSE SelectSeq(group[1].categories,
                                                 LAMBDA c : slugify(c) = cslug)
                        pages == {op \in Range(Ops(runs[i])) :
                                    op.path = Path("category", cslug, 1)}
                    IN  /\ \A k \in 1..Len(posts) :
                              (posts[k] \in Range(group)) <=>
                                  (\E c \in Range(posts[k].categories) : slugify(c) = cslug)
                        /\ \A j, k \in 1..Len(group) :
                              j < k => IndexIn(posts, group[j]) <= IndexIn(posts, group[k])
                        /\ group # << >> =>
                              /\ labels # << >>
                              /\ getCategoryName(group, cslug) = labels[1]
                        /\ (group # << >>) <=> (pages # {})
                        /\ \A op \in pages :
                              op.content.posts =
                                  Names(SubSeq(group, 1,
                                               Min(Len(group),
                                                   IF variant = "batched" THEN PageSize
                                                   ELSE Len(group))))

\* a post under two categories is in both groups, after the newer post of
\* one of them
C25_Witness ==
    \E i \in 1..Len(runs) :
        /\ runs[i].pc = "batchWrite"
        /\ runs[i].posts = << "multi.md", "b.md", "dup.md" >>
        /\ Names(PostsOfCategory(Posts(runs[i].posts), "privacy")) = << "multi.md", "b.md" >>
        /\ Names(PostsOfCategory(Posts(runs[i].posts), "web-development"))[1] = "multi.md"
        /\ getCategoryName(PostsOfCategory(Posts(runs[i].posts), "web-development"),
                           "web-development") = "Web Development"

(* C26: no two write operations of one build target the same output path: the
   paths of the set handed to batchWrite are pairwise distinct. *)
C26_WritePathsDistinct ==
    \A i \in 1..Len(runs) :
        runs[i].pc = "batchWrite" =>
            \A j, k \in 1..Len(Ops(runs[i])) :
                j # k => Ops(runs[i])[j].path # Ops(runs[i])[k].path

(* C27: the sitemap and the page generator agree on pagination: the /page/N/
   entries of the sitemap.xml of a completed build are the paginated index
   pages N >= 2 of that build. *)
C27_SitemapListsGeneratedPages ==
    cli = "resolved" =>
        \A e \in Outputs("sitemap") :
            e.content.links = {page.path.page : page \in Outputs("page")}

(* C30: in the orchestrator that hands feeds and sitemap to the batch writer
   (unnamed/part_002), the write set of every build that reaches the batch
   writer holds feed.xml, atom.xml and sitemap.xml whatever the posts are, so
   batchWrite is never called with an empty set. *)
C30_WriteSetNeverEmpty ==
    \A i \in 1..Len(runs) :
        (variant = "batched" /\ runs[i].pc = "batchWrite") =>
            /\ Ops(runs[i]) # << >>
            /\ \A kind \in {"feed", "atom", "sitemap"} :
                  \E op \in Range(Ops(runs[i])) : op.path.kind = kind

\* a build without posts is at the batch writer with exactly the two feeds
\* and the sitemap
C30_Witness ==
    \E i \in 1..Len(runs) :
        /\ variant = "batched" /\ runs[i].pc = "batchWrite"
        /\ runs[i].posts = << >>
        /\ Len(Ops(runs[i])) = 3

----------------------------------------------------------------------------
(* Properties of loadPosts, under SpecPosts *)

\* loadPosts has returned to build(): the collection the generators are given
Loaded == runs # << >> /\ runs[1].pc = "generate"
LoadedPosts == Posts(runs[1].posts)

\* the place of a source file in the directory listing
Place(file) == CHOOSE k \in 1..Len(postsDir) : postsDir[k] = file

Parses(post) == DateGetTime(post.date) # NaN

(* C17: the collection loadPosts returns is ordered by date descending and the
   ordering is stable: of two posts whose dates are real dates, the one with
   the later date comes first, and two posts with equal dates are in the order
   in which the directory listing gave their files. *)
C17_SortedByDateDescendingStable ==
    Loaded =>
        \A j, k \in 1..Len(LoadedPosts) :
            LET P1 == LoadedPosts[j]
                P2 == LoadedPosts[k]
            IN  Parses(P1) /\ Parses(P2) =>
                  /\ DateGetTime(P1.date) > DateGetTime(P2.date) => j < k
                  /\ DateGetTime(P1.date) = DateGetTime(P2.date)
                        /\ Place(P1.file) < Place(P2.file) => j < k

\* the source fails the required-field test of validate()
FailsRequired(file) ==
    \/ ~RequiredPresent(FrontMatter(file).title)
    \/ ~RequiredPresent(FrontMatter(file).date)

(* C18 as stated: every post in the working collection passed to the
   generators is fully valid: its title is present and non-empty and its date
   is present, matches YYYY-MM-DD and parses to a real date. *)
C18_EveryPostFullyValid ==
    Loaded =>
        \A k \in 1..Len(LoadedPosts) :
            /\ RequiredSet(LoadedPosts[k].title)
            /\ RequiredSet(LoadedPosts[k].date)
            /\ DateRegexTest(LoadedPosts[k].date)
            /\ Parses(LoadedPosts[k])

(* C18, amended: every post in the working collection passed to the generators
   has a title and a date that are present and non-empty text; a date that does
   not match YYYY-MM-DD or does not parse to a real date is kept as written,
   with a warning; a source whose title or date is missing or empty is absent
   from the collection and never partially included. *)
C18_EveryPostHasTitleAndDate ==
    Loaded =>
        /\ \A k \in 1..Len(LoadedPosts) :
              LET post == LoadedPosts[k]
                  data == FrontMatter(post.file)
                  warnings == validate(data).warnings
              IN  /\ RequiredSet(post.title) /\ post.title = trim(data.title)
                  /\ RequiredSet(post.date) /\ post.date = trim(data.date)
                  /\ ~DateRegexTest(post.date) => "date:format" \in warnings
                  /\ DateRegexTest(post.date) /\ ~Parses(post) => "date:value" \in warnings
        /\ \A k \in 1..Len(postsDir) :
              FailsRequired(postsDir[k]) => postsDir[k] \notin Range(runs[1].posts)

\* a post with a date that is no real date and one with a date in another
\* format are in the collection, a source without a date is not
C18_Witness ==
    /\ Loaded
    /\ \E k \in 1..Len(LoadedPosts) : DateRegexTest(LoadedPosts[k].date) /\ ~Parses(LoadedPosts[k])
    /\ \E k \in 1..Len(LoadedPosts) : ~DateRegexTest(LoadedPosts[k].date)
    /\ "nodate.md" \in Range(postsDir)

(* C19: applying the default for an absent optional field never excludes a
   source: a source with a non-empty title and date and no categories field
   passes validation, is in the loaded collection with the single sentinel
   label as its categories, and only a warning is emitted. *)
C19_DefaultCategoryNeverExcludes ==
    Loaded =>
        \A k \in 1..Len(postsDir) :
            LET file == postsDir[k]
                v == validate(FrontMatter(file))
            IN  ~FailsRequired(file) /\ FrontMatter(file).categories = Undefined =>
                  /\ v.isValid
                  /\ "categories:default" \in v.warnings
                  /\ \E j \in 1..Len(LoadedPosts) :
                        /\ LoadedPosts[j].file = file
                        /\ LoadedPosts[j].categories = << DefaultCategory >>

\* the directory without the sources that fail the required-field test
Others == SelectSeq(postsDir, LAMBDA file : ~FailsRequired(file))

(* C20: a source whose title or date is missing, not text, empty or
   whitespace-only fails validation and is excluded from the loaded collection,
   while every other source of the directory is loaded as it is without that
   source, and build() goes on to the generators. *)
C20_RequiredFieldFailureIsLocal ==
    Loaded =>
        /\ \A k \in 1..Len(postsDir) :
              FailsRequired(postsDir[k]) =>
                  /\ ~validate(FrontMatter(postsDir[k])).isValid
                  /\ postsDir[k] \notin Range(runs[1].posts)
        /\ runs[1].posts = Names(loadPosts(Others))

\* a directory with a source that fails the test between two that pass it:
\* both are loaded and build() is at the generators
C20_Witness ==
    /\ Loaded
    /\ Len(postsDir) = 3
    /\ FailsRequired(postsDir[2])
    /\ runs[1].posts = << postsDir[3], postsDir[1] >>

====
